---- MODULE Spec2Model ----
(***************************************************************************)
(* Model of the DQT JSON tool (src/src/App.jsx): the graph builder         *)
(* (generateFlow / traverse), the effect that rebuilds or clears the graph *)
(* when the text or the mode changes, and the hierarchical drag handlers   *)
(* (onNodeDragStart / onNodeDrag / onNodeDragStop) driven by the React     *)
(* Flow renderer.                                                          *)
(***************************************************************************)
EXTENDS Integers, Sequences, FiniteSets, TLC

VARIABLES jsonInput, mode, nodes, edges, idCounter, parentMap, dragSnapshot, event, moves, edits,
          walk

vars == <<jsonInput, mode, nodes, edges, idCounter, parentMap, dragSnapshot, event, moves, edits,
          walk>>

(***************************************************************************)
(* Bounds.  moves counts the drag-move events and edits the changes of the *)
(* text or the mode of a run; both only bound the runs explored.           *)
(***************************************************************************)
\* largest number of graph nodes of a JSON value enumerated for the builder
MaxNodes == 6
\* largest number of drag-move events raised in one run
MaxMoves == 2
\* largest number of changes of the text or the mode in one run
MaxEdits == 3
\* largest number of drags active at the same time
MaxActive == 2

(***************************************************************************)
(* Layout constants of traverse.                                           *)
(***************************************************************************)
ROW_HEIGHT == 120
SPACING == 220
FALLBACK_DY == 40

(***************************************************************************)
(* Parsed JSON values.  One record shape for every value: k is the JSON    *)
(* kind, n the number (or 1/0 for true/false), s the string, keys the keys *)
(* of an object in Object.entries order, kids the element / member values. *)
(***************************************************************************)
JNull == [k |-> "null", n |-> 0, s |-> "", keys |-> <<>>, kids |-> <<>>]
JNum(i) == [k |-> "number", n |-> i, s |-> "", keys |-> <<>>, kids |-> <<>>]
JStr(t) == [k |-> "string", n |-> 0, s |-> t, keys |-> <<>>, kids |-> <<>>]
JBool(b) == [k |-> "boolean", n |-> IF b THEN 1 ELSE 0, s |-> "", keys |-> <<>>, kids |-> <<>>]
JArr(items) == [k |-> "array", n |-> 0, s |-> "", keys |-> <<>>, kids |-> items]
JObj(ks, vs) == [k |-> "object", n |-> 0, s |-> "", keys |-> ks, kids |-> vs]

\* typeof v
TypeOf(v) == IF v.k \in {"null", "array", "object"} THEN "object" ELSE v.k

\* Array.isArray(v)
IsArray(v) == v.k = "array"

\* String(v) for a primitive v
StringOf(v) ==
  CASE v.k = "number" -> ToString(v.n)
    [] v.k = "string" -> v.s
    [] v.k = "boolean" -> (IF v.n = 1 THEN "true" ELSE "false")
    [] OTHER -> "null"

\* Object.entries(v): index keys "0","1",.. for an array, own keys for an object
ObjectEntries(v) ==
  [i \in 1..Len(v.kids) |->
     [key |-> IF IsArray(v) THEN ToString(i - 1) ELSE v.keys[i], val |-> v.kids[i]]]

(***************************************************************************)
(* The values the builder is checked on: every JSON value over Prims whose *)
(* graph has at most MaxNodes nodes.                                       *)
(***************************************************************************)
Prims == {JNum(1), JStr("x"), JNull}

KeyNames == <<"a", "b", "c", "d", "e", "f", "g", "h", "i", "j">>

RECURSIVE EntrySeqs(_)
\* sequences of member values whose entry nodes and subtrees take m nodes
EntrySeqs(m) ==
  IF m = 0 THEN {<<>>}
  ELSE UNION { { <<v>> \o rest :
                   v \in (IF c = 1 THEN Prims
                          ELSE { JArr(es) : es \in EntrySeqs(c - 2) }
                               \cup { JObj(SubSeq(KeyNames, 1, Len(es)), es) : es \in EntrySeqs(c - 2) }),
                   rest \in EntrySeqs(m - c) } : c \in 1..m }

JsonValuesOfSize(sz) ==
  (IF sz = 1 THEN Prims ELSE {})
  \cup { JArr(es) : es \in EntrySeqs(sz - 1) }
  \cup { JObj(SubSeq(KeyNames, 1, Len(es)), es) : es \in EntrySeqs(sz - 1) }

JsonValues == UNION { JsonValuesOfSize(sz) : sz \in 1..MaxNodes }

(***************************************************************************)
(* Text of the input area, by what JSON.parse makes of it.                 *)
(***************************************************************************)
EmptyText == [kind |-> "empty", value |-> JNull]
InvalidText == [kind |-> "invalid", value |-> JNull]
JsonText(v) == [kind |-> "json", value |-> v]

\* the documents typed while the diagram is being manipulated
SampleDocs ==
  { JArr(<<>>),
    JObj(<<"a", "b">>, <<JNum(1), JObj(<<"c">>, <<JNum(2)>>)>>),
    JArr(<<JArr(<<JStr("x")>>)>>) }

Texts == {EmptyText, InvalidText} \cup { JsonText(v) : v \in SampleDocs }

(***************************************************************************)
(* Maps keyed by node id (plain JS objects).                               *)
(***************************************************************************)
EmptyMap == [id \in {} |-> <<>>]

Has(m, id) == id \in DOMAIN m

Put(m, id, val) == [i \in (DOMAIN m) \cup {id} |-> IF i = id THEN val ELSE m[i]]

Delete(m, id) == [i \in (DOMAIN m) \ {id} |-> m[i]]

\* no parent: traverse's default parentId = null
Null == ""

Pos(px, py) == [x |-> px, y |-> py]

(***************************************************************************)
(* generateFlow / traverse.                                                *)
(***************************************************************************)
\* the label of the node of a visited value
NodeLabel(node) ==
  IF TypeOf(node) = "object"
    THEN (IF IsArray(node) THEN "Array" ELSE "Object")
    ELSE StringOf(node)

\* the label of the node of an entry
ChildLabel(key, val) ==
  IF TypeOf(val) = "object" THEN key ELSE key \o ": " \o StringOf(val)

\* relations[p] = relations[p] || []; relations[p].push(c)
PushRelation(relations, p, c) ==
  Put(relations, p, (IF Has(relations, p) THEN relations[p] ELSE <<>>) \o <<c>>)

MkNode(id, label, position) ==
  [id |-> id, label |-> label, position |-> position, draggable |-> TRUE]

MkEdge(source, target) ==
  [id |-> "e" \o source \o "-" \o target, source |-> source, target |-> target]

\* a link recorded without the test of parentId
LinkToParentUnguarded(acc, parentId, currentId) ==
  [acc EXCEPT !.edges = @ \o <<MkEdge(parentId, currentId)>>,
              !.relations = PushRelation(@, parentId, currentId)]

\* the edge and relation traverse records for a visited value with a parent
LinkToParent(acc, parentId, currentId) ==
  IF parentId # Null
    THEN [acc EXCEPT !.edges = @ \o <<MkEdge(parentId, currentId)>>,
                     !.relations = PushRelation(@, parentId, currentId)]
    ELSE acc

\* the edge and relation traverse records for an entry node
LinkEntry(acc, currentId, childId) ==
  [acc EXCEPT !.edges = @ \o <<MkEdge(currentId, childId)>>,
              !.relations = PushRelation(@, currentId, childId)]

\* a descent into arrays only
HasEntriesArrayOnly(v) == IsArray(v)

\* does traverse descend into this value
HasEntries(v) == TypeOf(v) = "object" /\ v.k # "null"

RECURSIVE traverse(_, _, _, _, _)
\* a nested container placed on the row of its entry
NestedDepthSameRow(depth) == depth + 1

\* traverse(val, depth + 2, childX, childId)
NestedDepth(depth) == depth + 2

\* a row that starts at the left edge of its width
StartXAtEdge(centerX, totalWidth) == centerX - (totalWidth \div 2)

\* const startX = centerX - totalWidth / 2 + spacing / 2
StartX(centerX, totalWidth) == centerX - (totalWidth \div 2) + (SPACING \div 2)

RECURSIVE traverseEntries(_, _, _, _, _, _, _)

\* entries.forEach(([key, val], i) => ...), from the i-th entry (1-based) on
traverseEntries(acc, entries, i, currentId, depth, y, startX) ==
  IF i > Len(entries) THEN acc
  ELSE
    LET childX == startX + (i - 1) * SPACING
        childId == ToString(acc.idCounter)
        val == entries[i].val
        a1 == [acc EXCEPT !.idCounter = @ + 1,
                          !.nodes = @ \o <<MkNode(childId, ChildLabel(entries[i].key, val),
                                                  Pos(childX, y + ROW_HEIGHT))>>]
        a2 == LinkEntry(a1, currentId, childId)
        a3 == IF HasEntries(val) THEN traverse(a2, val, NestedDepth(depth), childX, childId) ELSE a2
    IN traverseEntries(a3, entries, i + 1, currentId, depth, y, startX)

traverse(acc, node, depth, centerX, parentId) ==
  LET currentId == ToString(acc.idCounter)
      y == depth * ROW_HEIGHT
      a1 == [acc EXCEPT !.idCounter = @ + 1,
                        !.nodes = @ \o <<MkNode(currentId, NodeLabel(node), Pos(centerX, y))>>]
      a2 == LinkToParent(a1, parentId, currentId)
  IN IF HasEntries(node)
       THEN LET entries == ObjectEntries(node)
                childCount == Len(entries)
                totalWidth == childCount * SPACING
                startX == StartX(centerX, totalWidth)
            IN traverseEntries(a2, entries, 1, currentId, depth, y, startX)
       ELSE a2

\* a build that goes on counting from the previous build
KeepCounter(counter) == counter

\* idCounter.current = 1
ResetCounter(counter) == 1

\* a build that goes on filling the relation index of the previous build
ReusedRelations(relations) == relations

\* const relations = {}
FreshRelations(relations) == EmptyMap

\* the accumulators of generateFlow after traverse(obj, 0, 0, null)
generateFlow(obj) ==
  traverse([nodes |-> <<>>, edges |-> <<>>, relations |-> FreshRelations(parentMap),
            idCounter |-> ResetCounter(idCounter)],
           obj, 0, 0, Null)

(***************************************************************************)
(* The effect on [jsonInput, mode].                                        *)
(***************************************************************************)
\* no call of collectDescendants is running
Idle == [active |-> FALSE, parentId |-> Null, stack |-> <<>>, collected |-> <<>>]

\* the drag event handled last, none after the effect has run
NoEvent == [type |-> "none", id |-> "", position |-> Pos(0, 0)]

\* a clear that leaves parentMap.current alone
ClearGraphKeepRelations ==
  /\ nodes' = <<>>
  /\ edges' = <<>>
  /\ UNCHANGED <<idCounter, parentMap>>

\* if (!jsonInput) and the catch branch: the graph is cleared
ClearGraph ==
  /\ nodes' = <<>>
  /\ edges' = <<>>
  /\ parentMap' = EmptyMap
  /\ UNCHANGED idCounter

\* a rebuild that keeps the position of every node whose id was already live
RebuildKeepPositions(obj) ==
  LET g == generateFlow(obj)
  IN /\ nodes' = [i \in 1..Len(g.nodes) |->
                    IF i <= Len(nodes) /\ nodes[i].id = g.nodes[i].id
                      THEN [g.nodes[i] EXCEPT !.position = nodes[i].position]
                      ELSE g.nodes[i]]
     /\ edges' = g.edges
     /\ parentMap' = g.relations
     /\ idCounter' = g.idCounter

\* generateFlow(parsed): the graph is replaced
Rebuild(obj) ==
  LET g == generateFlow(obj)
  IN /\ nodes' = g.nodes
     /\ edges' = g.edges
     /\ parentMap' = g.relations
     /\ idCounter' = g.idCounter

useEffect(text, m) ==
  IF text.kind = "empty" THEN ClearGraph
  ELSE IF text.kind = "invalid" THEN ClearGraph
  ELSE IF m = "visualize" THEN Rebuild(text.value)
  ELSE UNCHANGED <<nodes, edges, idCounter, parentMap>>

Init ==
  /\ jsonInput = EmptyText
  /\ mode = "format"
  /\ nodes = <<>>
  /\ edges = <<>>
  /\ idCounter = 1
  /\ parentMap = EmptyMap
  /\ dragSnapshot = EmptyMap
  /\ event = NoEvent
  /\ moves = 0
  /\ edits = 0
  /\ walk = Idle

\* onChange of the input area
SetJsonInput ==
  /\ \E text \in Texts :
       /\ text # jsonInput
       /\ jsonInput' = text
       /\ useEffect(text, mode)
  /\ edits < MaxEdits
  /\ edits' = edits + 1
  /\ event' = NoEvent
  /\ UNCHANGED <<mode, dragSnapshot, moves, walk>>

\* onChange of the mode toggle
SetMode ==
  /\ \E m \in {"format", "visualize"} :
       /\ m # mode
       /\ mode' = m
       /\ useEffect(jsonInput, m)
  /\ edits < MaxEdits
  /\ edits' = edits + 1
  /\ event' = NoEvent
  /\ UNCHANGED <<jsonInput, dragSnapshot, moves, walk>>

(***************************************************************************)
(* The drag handlers.                                                      *)
(***************************************************************************)
\* a walk that stops at the direct children
walkChildrenOnly(rel, stack, collected) == stack

RECURSIVE walkDescendants(_, _, _)
\* the while loop of collectDescendants: stack.shift(), collected.push(child),
\* stack.push(...children)
walkDescendants(rel, stack, collected) ==
  IF stack = <<>> THEN collected
  ELSE LET child == Head(stack)
           children == IF Has(rel, child) THEN rel[child] ELSE <<>>
       IN walkDescendants(rel, Tail(stack) \o children, collected \o <<child>>)

collectDescendants(rel, parentId) ==
  walkDescendants(rel, IF Has(rel, parentId) THEN rel[parentId] ELSE <<>>, <<>>)

Range(seq) == { seq[i] : i \in 1..Len(seq) }

NodeIds(nds) == { nds[i].id : i \in 1..Len(nds) }

\* nodeMap[id] of onNodeDragStart: the position of the live node with this id
NodePosition(nds, id) == nds[CHOOSE i \in 1..Len(nds) : nds[i].id = id].position

\* the snapshot onNodeDragStart stores for node: the node itself at the
\* position the event carries, every descendant at its live position
onNodeDragStart(nds, rel, node) ==
  LET descendants == Range(collectDescendants(rel, node.id))
  IN [id \in {node.id} \cup descendants |->
        IF id \in descendants
          THEN (IF id \in NodeIds(nds)
                  THEN NodePosition(nds, id)
                  ELSE Pos(node.position.x, node.position.y + FALLBACK_DY))
          ELSE node.position]

\* a move that adds dx on both axes
MovedByDxOnly(snapPos, livePos, dx, dy) == Pos(snapPos.x + dx, snapPos.y + dx)

\* a move that adds the delta to the previous live position
MovedFromLive(snapPos, livePos, dx, dy) == Pos(livePos.x + dx, livePos.y + dy)

\* new position = original snapshot position + (dx,dy)
MovedPosition(snapPos, livePos, dx, dy) == Pos(snapPos.x + dx, snapPos.y + dy)

\* a handler that moves every live node by the delta
onNodeDragEveryNode(nds, snapshots, node) ==
  IF ~Has(snapshots, node.id) THEN nds
  ELSE LET startPos == snapshots[node.id][node.id]
           dx == node.position.x - startPos.x
           dy == node.position.y - startPos.y
       IN [i \in 1..Len(nds) |->
             IF nds[i].id = node.id THEN nds[i]
             ELSE [nds[i] EXCEPT !.position = Pos(@.x + dx, @.y + dy)]]

\* a handler that falls back to the snapshot of another active drag
onNodeDragAnySnapshot(nds, snapshots, node) ==
  IF snapshots = EmptyMap THEN nds
  ELSE LET key == IF Has(snapshots, node.id) THEN node.id
                  ELSE CHOOSE id \in DOMAIN snapshots : TRUE
           snapshot == snapshots[key]
           startPos == snapshot[key]
           dx == node.position.x - startPos.x
           dy == node.position.y - startPos.y
       IN [i \in 1..Len(nds) |->
             IF Has(snapshot, nds[i].id)
               THEN [nds[i] EXCEPT !.position =
                       Pos(snapshot[nds[i].id].x + dx, snapshot[nds[i].id].y + dy)]
               ELSE nds[i]]

\* a handler that leaves alone the nodes that are the root of another active
\* drag
onNodeDragSkipsRoots(nds, snapshots, node) ==
  IF ~Has(snapshots, node.id) THEN nds
  ELSE LET snapshot == snapshots[node.id]
           startPos == snapshot[node.id]
           dx == node.position.x - startPos.x
           dy == node.position.y - startPos.y
       IN [i \in 1..Len(nds) |->
             IF Has(snapshot, nds[i].id) /\ (nds[i].id = node.id \/ ~Has(snapshots, nds[i].id))
               THEN [nds[i] EXCEPT !.position =
                       Pos(snapshot[nds[i].id].x + dx, snapshot[nds[i].id].y + dy)]
               ELSE nds[i]]

\* the node list onNodeDrag leaves for the dragged node at its new position
onNodeDrag(nds, snapshots, node) ==
  IF ~Has(snapshots, node.id) THEN nds
  ELSE LET snapshot == snapshots[node.id]
           startPos == snapshot[node.id]
           dx == node.position.x - startPos.x
           dy == node.position.y - startPos.y
           descendants == (DOMAIN snapshot) \ {node.id}
       IN IF descendants = {} THEN nds
          ELSE [i \in 1..Len(nds) |->
                  IF Has(snapshot, nds[i].id)
                    THEN [nds[i] EXCEPT !.position =
                            MovedPosition(snapshot[nds[i].id], nds[i].position, dx, dy)]
                    ELSE nds[i]]

\* a handler that re-records the snapshot of the dragged node at the live
\* positions it has just written
onNodeDragRebases(snapshots, nds, node) ==
  IF ~Has(snapshots, node.id) THEN snapshots
  ELSE Put(snapshots, node.id,
           [id \in DOMAIN snapshots[node.id] |->
              IF \E i \in 1..Len(nds) : nds[i].id = id
                THEN nds[CHOOSE i \in 1..Len(nds) : nds[i].id = id].position
                ELSE snapshots[node.id][id]])

\* dragSnapshot.current after onNodeDrag: the handler reads
\* dragSnapshot.current[nodeId] and assigns nothing to it
onNodeDragSnapshots(snapshots, nds, node) == snapshots

\* a stop that forgets the delete
onNodeDragStopKeeps(snapshots, node) == snapshots

\* delete dragSnapshot.current[nodeId]
onNodeDragStop(snapshots, node) == Delete(snapshots, node.id)

(***************************************************************************)
(* The renderer (React Flow, mounted in visualize mode only): it moves the *)
(* dragged node itself through onNodesChange and raises the drag events    *)
(* with the node at its current position.                                  *)
(***************************************************************************)
\* the positions a pointer drags a node to
DragPositions == {Pos(160, 270), Pos(10, 20)}

\* onNodesChange for a position change of one node
onNodesChange(nds, id, position) ==
  [i \in 1..Len(nds) |-> IF nds[i].id = id THEN [nds[i] EXCEPT !.position = position] ELSE nds[i]]

Raised(type, id, position) == [type |-> type, id |-> id, position |-> position]

\* the renderer raises onNodeDragStart for a node at its current position
DragStart ==
  /\ mode = "visualize"
  /\ \E i \in 1..Len(nodes) :
       /\ Has(dragSnapshot, nodes[i].id) \/ Cardinality(DOMAIN dragSnapshot) < MaxActive
       /\ event' = Raised("start", nodes[i].id, nodes[i].position)
       /\ dragSnapshot' = Put(dragSnapshot, nodes[i].id, onNodeDragStart(nodes, parentMap, event'))
  /\ UNCHANGED <<jsonInput, mode, nodes, edges, idCounter, parentMap, moves, edits, walk>>

\* the renderer moves the dragged node to p and raises onNodeDrag
DragMove ==
  /\ mode = "visualize"
  /\ moves < MaxMoves
  /\ moves' = moves + 1
  /\ \E i \in 1..Len(nodes), p \in DragPositions :
       /\ event' = Raised("drag", nodes[i].id, p)
       /\ nodes' = onNodeDrag(onNodesChange(nodes, nodes[i].id, p), dragSnapshot, event')
       /\ dragSnapshot' = onNodeDragSnapshots(dragSnapshot, nodes', event')
  /\ UNCHANGED <<jsonInput, mode, edges, idCounter, parentMap, edits, walk>>

\* the renderer raises onNodeDragStop for a node whose drag it started
DragStop ==
  /\ mode = "visualize"
  /\ \E i \in 1..Len(nodes) :
       /\ Has(dragSnapshot, nodes[i].id)
       /\ event' = Raised("stop", nodes[i].id, nodes[i].position)
       /\ dragSnapshot' = onNodeDragStop(dragSnapshot, event')
  /\ UNCHANGED <<jsonInput, mode, nodes, edges, idCounter, parentMap, moves, edits, walk>>

Next ==
  \/ SetJsonInput
  \/ SetMode
  \/ DragStart
  \/ DragMove
  \/ DragStop

Spec == Init /\ [][Next]_vars

\* the builder on every bounded JSON value: the text is entered in format
\* mode, the mode toggle then builds its graph
InitBuild ==
  /\ jsonInput \in { JsonText(v) : v \in JsonValues }
  /\ mode = "format"
  /\ nodes = <<>>
  /\ edges = <<>>
  /\ idCounter = 1
  /\ parentMap = EmptyMap
  /\ dragSnapshot = EmptyMap
  /\ event = NoEvent
  /\ moves = 0
  /\ edits = 0
  /\ walk = Idle

NextBuild == SetMode

SpecBuild == InitBuild /\ [][NextBuild]_vars

(***************************************************************************)
(* collectDescendants iteration by iteration.  walk holds the argument and *)
(* the locals stack and collected of the call that is running; the call is *)
(* synchronous, so nothing else runs until it has returned.                *)
(***************************************************************************)
\* an iteration that pushes no children
whileBodyNoPush(rel, w) ==
  [w EXCEPT !.stack = Tail(@), !.collected = @ \o <<Head(w.stack)>>]

\* const child = stack.shift(); collected.push(child);
\* if (children && children.length) stack.push(...children)
whileBody(rel, w) ==
  LET child == Head(w.stack)
      children == IF Has(rel, child) THEN rel[child] ELSE <<>>
  IN [w EXCEPT !.stack = Tail(@) \o children, !.collected = @ \o <<child>>]

\* collectDescendants(parentId) is entered for a live node
WalkCall ==
  /\ mode = "visualize"
  /\ ~walk.active
  /\ \E i \in 1..Len(nodes) :
       walk' = [active |-> TRUE,
                parentId |-> nodes[i].id,
                stack |-> IF Has(parentMap, nodes[i].id) THEN parentMap[nodes[i].id] ELSE <<>>,
                collected |-> <<>>]
  /\ UNCHANGED <<jsonInput, mode, nodes, edges, idCounter, parentMap, dragSnapshot, event,
                 moves, edits>>

\* one iteration of while (stack.length)
WalkStep ==
  /\ walk.active
  /\ walk.stack # <<>>
  /\ walk' = whileBody(parentMap, walk)
  /\ UNCHANGED <<jsonInput, mode, nodes, edges, idCounter, parentMap, dragSnapshot, event,
                 moves, edits>>

\* return collected
WalkReturn ==
  /\ walk.active
  /\ walk.stack = <<>>
  /\ walk' = Idle
  /\ UNCHANGED <<jsonInput, mode, nodes, edges, idCounter, parentMap, dragSnapshot, event,
                 moves, edits>>

\* the mode toggle, between calls only
WalkSetMode == ~walk.active /\ SetMode

NextWalk ==
  \/ WalkSetMode
  \/ WalkCall
  \/ WalkStep
  \/ WalkReturn

\* the loop and the return run to completion once the call is entered
SpecWalk ==
  InitBuild /\ [][NextWalk]_vars /\ WF_vars(WalkStep) /\ WF_vars(WalkReturn)

(***************************************************************************)
(* Properties.                                                             *)
(***************************************************************************)
\* the state is the one right after onNodeDrag ran for a root with a snapshot
AfterActiveDragMove == event.type = "drag" /\ Has(dragSnapshot, event.id)

\* the position a rigid move of the snapshot to the event's position gives id
RigidPosition(snapshot, rootId, p, id) ==
  Pos(snapshot[id].x + (p.x - snapshot[rootId].x), snapshot[id].y + (p.y - snapshot[rootId].y))

\* C1: right after any DragMove(r, P) of an active drag, every live node
\* whose id is in r's snapshot is at snapshot(n) + (P - snapshot(r)),
\* whatever moves came before.
C1_RigidBodyDrag ==
  AfterActiveDragMove =>
    \A i \in 1..Len(nodes) :
      Has(dragSnapshot[event.id], nodes[i].id) =>
        nodes[i].position =
          RigidPosition(dragSnapshot[event.id], event.id, event.position, nodes[i].id)

\* the second move of the run has dragged the container under "b" of the
\* example by (50, 30): its entry "c: 2" has followed from (110, 360)
C1_Witness ==
  /\ AfterActiveDragMove
  /\ moves = 2
  /\ event.id = "4"
  /\ DOMAIN dragSnapshot["4"] = {"4", "5"}
  /\ dragSnapshot["4"]["4"] = Pos(110, 240)
  /\ event.position = Pos(160, 270)
  /\ Len(nodes) = 5
  /\ nodes[5].id = "5"
  /\ nodes[5].position = Pos(160, 390)
  /\ nodes[4].position = Pos(160, 270)

\* C2: DragMove is idempotent: right after DragMove(r, P) of an active drag,
\* the same DragMove(r, P) again leaves every live node where it is.
C2_DragMoveIdempotent ==
  AfterActiveDragMove =>
    onNodeDrag(onNodesChange(nodes, event.id, event.position), dragSnapshot, event) = nodes

\* a drag of a root with two descendants by a nonzero delta has been applied
C2_Witness ==
  /\ AfterActiveDragMove
  /\ Cardinality(DOMAIN dragSnapshot[event.id]) >= 3
  /\ event.position # dragSnapshot[event.id][event.id]
  /\ \E i \in 1..Len(nodes) :
       /\ nodes[i].id # event.id
       /\ Has(dragSnapshot[event.id], nodes[i].id)
       /\ nodes[i].position # dragSnapshot[event.id][nodes[i].id]

\* the state is the one right after the effect rebuilt the graph
AfterRebuild == event = NoEvent /\ mode = "visualize" /\ jsonInput.kind = "json" /\ edits > 0

\* C3: right after a rebuild commits, no drag snapshot exists.
C3_RebuildInvalidatesSnapshots == AfterRebuild => dragSnapshot = EmptyMap

RECURSIVE EntryCount(_)
RECURSIVE EntryCountOfAll(_, _)
\* the entries of the first i values of a sequence of values
EntryCountOfAll(vals, i) ==
  IF i = 0 THEN 0 ELSE EntryCountOfAll(vals, i - 1) + EntryCount(vals[i])

\* the number of entries of every container in a JSON value
EntryCount(v) ==
  IF v.k \in {"array", "object"} THEN Len(v.kids) + EntryCountOfAll(v.kids, Len(v.kids)) ELSE 0

\* the graph shown is the one built from the current text
GraphBuilt == mode = "visualize" /\ jsonInput.kind = "json"

RECURSIVE ContainerCount(_)
RECURSIVE ContainerCountOfAll(_, _)
\* the containers in the first i values of a sequence of values
ContainerCountOfAll(vals, i) ==
  IF i = 0 THEN 0 ELSE ContainerCountOfAll(vals, i - 1) + ContainerCount(vals[i])

\* the number of containers in a JSON value, the value itself included
ContainerCount(v) ==
  IF v.k \in {"array", "object"} THEN 1 + ContainerCountOfAll(v.kids, Len(v.kids)) ELSE 0

\* the containers of a JSON value that are the value of an entry
NestedContainerCount(v) == ContainerCountOfAll(v.kids, Len(v.kids))

\* C4 as claimed: build(value) yields 1 + (entries over every container of
\* the value) nodes.
C4_NodeCountAsClaimed == GraphBuilt => Len(nodes) = 1 + EntryCount(jsonInput.value)

\* C4, amended: build(value) yields 1 + (entries over every container of the
\* value) + (containers that are the value of an entry) nodes: a nested
\* container has its entry node and a node of its own.
C4_NodeCount ==
  GraphBuilt =>
    Len(nodes) = 1 + EntryCount(jsonInput.value) + NestedContainerCount(jsonInput.value)

\* a container nested in a container with a null and a non-null entry is built
C4_Witness ==
  /\ GraphBuilt
  /\ Len(nodes) = 6
  /\ Len(jsonInput.value.kids) = 2
  /\ jsonInput.value.kids[1].k = "null"
  /\ jsonInput.value.kids[2].k = "object"
  /\ Len(jsonInput.value.kids[2].kids) = 2

EdgesInto(id) == { i \in 1..Len(edges) : edges[i].target = id }

\* C5: the built graph is a tree: |edges| = |nodes| - 1, every node but the
\* root "1" is the target of exactly one edge, the root of none.
C5_Tree ==
  GraphBuilt =>
    /\ Len(edges) = Len(nodes) - 1
    /\ "1" \in NodeIds(nodes)
    /\ EdgesInto("1") = {}
    /\ \A i \in 1..Len(nodes) : nodes[i].id # "1" => Cardinality(EdgesInto(nodes[i].id)) = 1

\* a graph of three nested containers is built
C5_Witness ==
  /\ GraphBuilt
  /\ Len(nodes) = 6
  /\ Len(edges) = 5
  /\ \E i, j \in 1..Len(jsonInput.value.kids) :
       /\ i # j
       /\ jsonInput.value.kids[i].k = "array"
       /\ jsonInput.value.kids[j].k = "object"

\* the parent -> child pairs of the relation index
RelationPairs ==
  UNION { { <<p, parentMap[p][i]>> : i \in 1..Len(parentMap[p]) } : p \in DOMAIN parentMap }

\* the source -> target pairs of the edge set
EdgePairs == { <<edges[i].source, edges[i].target>> : i \in 1..Len(edges) }

\* C6: in every reachable state id2 is in relationIndex[id1] iff an edge
\* id1 -> id2 exists, and both ends of every edge are live node ids.
C6_RelationsMatchEdges ==
  /\ RelationPairs = EdgePairs
  /\ \A i \in 1..Len(edges) :
       edges[i].source \in NodeIds(nodes) /\ edges[i].target \in NodeIds(nodes)

\* the example graph, rebuilt over a drag started in another graph and
\* dragged since
C6_Witness ==
  /\ edits = 3
  /\ moves = 2
  /\ Len(edges) = 4
  /\ event.type = "drag"
  /\ \E r \in DOMAIN dragSnapshot :
       DOMAIN dragSnapshot[r] # {r} \cup Range(collectDescendants(parentMap, r))

\* this step is the handling of a drag-move event
DragMoveStep == moves' # moves

\* every live node but the one with this id stays as it is
OthersUnchanged(id) ==
  /\ Len(nodes') = Len(nodes)
  /\ \A i \in 1..Len(nodes) : nodes[i].id # id => nodes'[i] = nodes[i]

\* C7: DragStart on a node with no entry in the relation index snapshots the
\* node alone, and a DragMove on a root snapshotted alone changes no node
\* but the dragged one.
C7_LeafDrag ==
  [][ /\ (event'.type = "start" /\ event' # event /\ ~Has(parentMap, event'.id))
          => DOMAIN dragSnapshot'[event'.id] = {event'.id}
      /\ (DragMoveStep /\ Has(dragSnapshot, event'.id)
            /\ DOMAIN dragSnapshot[event'.id] = {event'.id})
          => OthersUnchanged(event'.id) ]_vars

\* the entry "a: 1" of the example, a leaf, is dragged for the second time
C7_Witness ==
  /\ AfterActiveDragMove
  /\ moves = 2
  /\ event.id = "2"
  /\ ~Has(parentMap, "2")
  /\ Len(nodes) = 5
  /\ DOMAIN dragSnapshot["2"] = {"2"}
  /\ nodes[2].position = event.position
  /\ nodes[2].position # dragSnapshot["2"]["2"]

\* C8: DragMove(id, P) for an id with no snapshot is a no-op: the handler
\* writes no position (the nodes are as the renderer left them) and the
\* edges, the relation index and the snapshots are unchanged.
C8_MoveWithoutSnapshotIsNoOp ==
  [][ (DragMoveStep /\ ~Has(dragSnapshot, event'.id))
        => /\ nodes' = onNodesChange(nodes, event'.id, event'.position)
           /\ OthersUnchanged(event'.id)
           /\ edges' = edges
           /\ parentMap' = parentMap
           /\ dragSnapshot' = dragSnapshot ]_vars

\* a move of a parent that was never started, while another drag is active
C8_Witness ==
  /\ event.type = "drag"
  /\ ~Has(dragSnapshot, event.id)
  /\ Has(parentMap, event.id)
  /\ dragSnapshot # EmptyMap
  /\ \E i \in 1..Len(nodes) : nodes[i].id = event.id /\ nodes[i].position = event.position

\* C9: DragStop(id) discards the snapshot of id and changes no live position;
\* a snapshot for id comes back only by DragStart(id), and until then a
\* DragMove(id, .) writes no position.
C9_DragStopEndsSession ==
  [][ /\ (event'.type = "stop" /\ event' # event)
          => ~Has(dragSnapshot', event'.id) /\ nodes' = nodes
      /\ \A id \in DOMAIN dragSnapshot' :
            ~Has(dragSnapshot, id) => (event'.type = "start" /\ event'.id = id)
      /\ (DragMoveStep /\ ~Has(dragSnapshot, event'.id))
          => nodes' = onNodesChange(nodes, event'.id, event'.position) ]_vars

\* a drag of a parent that moved its subtree has been stopped
C9_Witness ==
  /\ event.type = "stop"
  /\ ~Has(dragSnapshot, event.id)
  /\ Has(parentMap, event.id)
  /\ moves > 0
  /\ \E i \in 1..Len(nodes) :
       /\ nodes[i].id \in Range(collectDescendants(parentMap, event.id))
       /\ nodes[i].position # generateFlow(jsonInput.value).nodes[i].position

\* the ids of the subtree of a node: the node and all its descendants
Subtree(id) == {id} \cup Range(collectDescendants(parentMap, id))

\* C10: DragMove(r, P) of an active drag changes the position of no node
\* outside the subtree of r and leaves the node set, the edges and the
\* relation index as they are.
C10_MoveChangesOnlySubtree ==
  [][ (DragMoveStep /\ Has(dragSnapshot, event'.id))
        => /\ Len(nodes') = Len(nodes)
           /\ \A i \in 1..Len(nodes) :
                nodes[i].id \notin Subtree(event'.id) => nodes'[i] = nodes[i]
           /\ edges' = edges
           /\ parentMap' = parentMap ]_vars

\* the graph the program builds for a value as its first build
InitialBuild(obj) ==
  traverse([nodes |-> <<>>, edges |-> <<>>, relations |-> EmptyMap, idCounter |-> 1],
           obj, 0, 0, Null)

\* C11: build is independent of prior state: right after a rebuild, whatever
\* builds and drags came before, the ids, labels, positions, edges and the
\* relation index are those of the same value built from the initial state.
C11_BuildIndependentOfHistory ==
  AfterRebuild =>
    /\ nodes = InitialBuild(jsonInput.value).nodes
    /\ edges = InitialBuild(jsonInput.value).edges
    /\ parentMap = InitialBuild(jsonInput.value).relations

\* the example is rebuilt over another graph that was dragged, with a drag
\* still active
C11_Witness ==
  /\ AfterRebuild
  /\ edits = 3
  /\ moves > 0
  /\ dragSnapshot # EmptyMap
  /\ Len(nodes) = 5

IsContainer(v) == v.k \in {"array", "object"}

RECURSIVE Outline(_, _), OutlineOfEntries(_, _, _)
\* the nodes of a value in depth-first pre-order, each with what it stands
\* for: the value itself (entry FALSE) or the entry key -> val of a container
\* (entry TRUE), and the number of containers around it
Outline(v, level) ==
  <<[entry |-> FALSE, key |-> "", val |-> v, level |-> level]>>
    \o (IF IsContainer(v) THEN OutlineOfEntries(ObjectEntries(v), 1, level) ELSE <<>>)

OutlineOfEntries(entries, i, level) ==
  IF i > Len(entries) THEN <<>>
  ELSE <<[entry |-> TRUE, key |-> entries[i].key, val |-> entries[i].val, level |-> level]>>
         \o (IF IsContainer(entries[i].val) THEN Outline(entries[i].val, level + 1) ELSE <<>>)
         \o OutlineOfEntries(entries, i + 1, level)

\* the built graph is the graph of the text, node for node
GraphOfText ==
  /\ GraphBuilt
  /\ Len(nodes) = Len(Outline(jsonInput.value, 0))

\* C12: the node of an entry is labelled with the key alone when the entry's
\* value is an object or an array, and with "key: value" for every other
\* value, null included.
C12_EntryLabels ==
  GraphOfText =>
    \A i \in 1..Len(nodes) :
      LET o == Outline(jsonInput.value, 0)[i] IN
        o.entry =>
          nodes[i].label =
            (IF IsContainer(o.val) THEN o.key ELSE o.key \o ": " \o StringOf(o.val))

\* C13: a rebuild replaces the graph in full: right after any rebuild every
\* live node is at the position the layout gives it, whatever drags moved the
\* nodes of the graph before.
C13_RebuildResetsPositions ==
  AfterRebuild =>
    /\ Len(nodes) = Len(generateFlow(jsonInput.value).nodes)
    /\ \A i \in 1..Len(nodes) :
         nodes[i].position = generateFlow(jsonInput.value).nodes[i].position

\* a graph rebuilt after two drag moves
C13_Witness ==
  /\ AfterRebuild
  /\ moves = MaxMoves
  /\ Len(nodes) = 4

\* C14: the snapshot of an active drag is frozen: a drag move, of its own
\* root or of another, changes neither the keys nor the positions of the
\* snapshot of any root whose drag is active.
C14_SnapshotFrozen ==
  [][DragMoveStep =>
       \A r \in DOMAIN dragSnapshot :
         Has(dragSnapshot', r) /\ dragSnapshot'[r] = dragSnapshot[r]]_vars

\* two drags are active and a move of one of them has displaced its subtree
C14_Witness ==
  /\ AfterActiveDragMove
  /\ Cardinality(DOMAIN dragSnapshot) = 2
  /\ Cardinality(DOMAIN dragSnapshot[event.id]) > 1
  /\ \E i \in 1..Len(nodes) :
       /\ nodes[i].id # event.id
       /\ Has(dragSnapshot[event.id], nodes[i].id)
       /\ nodes[i].position # dragSnapshot[event.id][nodes[i].id]

RECURSIVE ReachableFrom(_, _)
\* the ids reachable from the ids of S through the relation index, S included
ReachableFrom(rel, S) ==
  LET next == S \cup UNION { Range(rel[p]) : p \in S \cap DOMAIN rel }
  IN IF next = S THEN S ELSE ReachableFrom(rel, next)

AfterDragStart == event.type = "start"

\* C15: right after DragStart(r, pos) the snapshot of r has exactly the keys r
\* and every node reachable from r through the relation index, and maps r
\* to pos and every descendant to its live position.
C15_SnapshotOfSubtree ==
  AfterDragStart =>
    /\ Has(dragSnapshot, event.id)
    /\ DOMAIN dragSnapshot[event.id] = ReachableFrom(parentMap, {event.id})
    /\ dragSnapshot[event.id][event.id] = event.position
    /\ \A id \in DOMAIN dragSnapshot[event.id] \ {event.id} :
         \E i \in 1..Len(nodes) :
           nodes[i].id = id /\ dragSnapshot[event.id][id] = nodes[i].position

\* a drag starts on a node with grandchildren after a move has displaced one
\* of its descendants from its layout position
C15_Witness ==
  /\ AfterDragStart
  /\ moves > 0
  /\ \E c \in DOMAIN parentMap :
       /\ c # event.id
       /\ Has(dragSnapshot[event.id], c)
  /\ \E i \in 1..Len(nodes) :
       /\ nodes[i].id # event.id
       /\ Has(dragSnapshot[event.id], nodes[i].id)
       /\ nodes[i].position # generateFlow(jsonInput.value).nodes[i].position

\* the number an id spells
IdNumber(id) == CHOOSE n \in 0..(MaxNodes + 1) : ToString(n) = id

\* the parent of the i-th node of an outline, 0 for the root: an entry hangs
\* from the nearest container before it at its level, a nested container from
\* the entry right before it
OutlineParent(o, i) ==
  IF i = 1 THEN 0
  ELSE IF o[i].entry
    THEN CHOOSE j \in 1..(i - 1) :
           /\ ~o[j].entry
           /\ o[j].level = o[i].level
           /\ \A m \in (j + 1)..(i - 1) : o[m].entry \/ o[m].level # o[i].level
    ELSE i - 1

\* C16: within one build the ids are "1".."N" handed out in depth-first
\* pre-order from a counter reset at the start of the build: the root is "1",
\* no id repeats, and every edge runs from a smaller id to a larger one.
C16_IdsInPreorder ==
  GraphOfText =>
    /\ \A i \in 1..Len(nodes) : nodes[i].id = ToString(i)
    /\ \A i, j \in 1..Len(nodes) : nodes[i].id = nodes[j].id => i = j
    /\ idCounter = Len(nodes) + 1
    /\ \A i \in 2..Len(nodes) :
         \E n \in 1..Len(edges) :
           /\ edges[n].target = nodes[i].id
           /\ edges[n].source = ToString(OutlineParent(Outline(jsonInput.value, 0), i))
    /\ \A n \in 1..Len(edges) : IdNumber(edges[n].source) < IdNumber(edges[n].target)

\* a value with a container inside a container, built for the second time
C16_Witness ==
  /\ GraphOfText
  /\ edits = MaxEdits
  /\ Len(nodes) = MaxNodes
  /\ \E i \in 1..Len(nodes) : Outline(jsonInput.value, 0)[i].level = 2

\* the sum of the x of the nodes with the ids ids[1..n]
RECURSIVE SumOfX(_, _)
SumOfX(ids, n) ==
  IF n = 0 THEN 0 ELSE SumOfX(ids, n - 1) + nodes[IdNumber(ids[n])].position.x

\* the i-th node is the node of a container with entries
ContainerWithEntries(i) ==
  /\ ~Outline(jsonInput.value, 0)[i].entry
  /\ Has(parentMap, nodes[i].id)

\* C17: the k >= 1 entries of a container at x = centerX are laid out left to
\* right at centerX - k*SPACING/2 + SPACING/2 + i*SPACING for i = 0..k-1:
\* SPACING apart and centred on the container.
C17_EntriesCentred ==
  GraphOfText =>
    \A c \in 1..Len(nodes) :
      ContainerWithEntries(c) =>
        LET kids == parentMap[nodes[c].id]
            k == Len(kids)
            centerX == nodes[c].position.x
        IN /\ k = Len(Outline(jsonInput.value, 0)[c].val.kids)
           /\ k >= 1
           /\ \A i \in 0..(k - 1) :
                2 * nodes[IdNumber(kids[i + 1])].position.x =
                  2 * centerX - k * SPACING + SPACING + 2 * i * SPACING
           /\ \A i \in 1..(k - 1) :
                nodes[IdNumber(kids[i + 1])].position.x
                  - nodes[IdNumber(kids[i])].position.x = SPACING
           /\ SumOfX(kids, k) = k * centerX

\* a nested container away from x = 0 with several entries
C17_Witness ==
  /\ GraphOfText
  /\ \E c \in 2..Len(nodes) :
       /\ ContainerWithEntries(c)
       /\ nodes[c].position.x # 0
       /\ Len(parentMap[nodes[c].id]) >= 2

\* C18: a value visited at depth d sits at y = d * ROW_HEIGHT, the root at
\* (0, 0); an entry sits one row below its container; a nested container sits
\* two rows below the container around it, one row below its own entry and
\* at the x of that entry.
C18_Rows ==
  GraphOfText =>
    LET o == Outline(jsonInput.value, 0) IN
      /\ nodes[1].position = Pos(0, 0)
      /\ \A i \in 1..Len(nodes) :
           IF o[i].entry
             THEN nodes[i].position.y =
                    nodes[OutlineParent(o, i)].position.y + ROW_HEIGHT
             ELSE /\ nodes[i].position.y = (2 * o[i].level) * ROW_HEIGHT
                  /\ i > 1 =>
                       /\ nodes[i].position.y = nodes[i - 1].position.y + ROW_HEIGHT
                       /\ nodes[i].position.x = nodes[i - 1].position.x
                       /\ nodes[i].position.y =
                            nodes[OutlineParent(o, i - 1)].position.y + 2 * ROW_HEIGHT

\* a container two containers deep, away from x = 0
C18_Witness ==
  /\ GraphOfText
  /\ \E i \in 1..Len(nodes) :
       /\ ~Outline(jsonInput.value, 0)[i].entry
       /\ Outline(jsonInput.value, 0)[i].level = 2
       /\ nodes[i].position.x # 0

\* C19: the node of a visited value is labelled "Array" for an array,
\* "Object" for an object and with the string form of any other value; a
\* root that is a number, a string, a boolean or null, and a root that is an
\* empty object or array, builds that one node, no edge and an empty relation
\* index.
C19_ValueLabels ==
  GraphOfText =>
    /\ \A i \in 1..Len(nodes) :
         LET o == Outline(jsonInput.value, 0)[i] IN
           ~o.entry =>
             nodes[i].label =
               (IF o.val.k = "array" THEN "Array"
                ELSE IF o.val.k = "object" THEN "Object"
                ELSE StringOf(o.val))
    /\ (~IsContainer(jsonInput.value) \/ jsonInput.value.kids = <<>>) =>
         /\ Len(nodes) = 1
         /\ edges = <<>>
         /\ parentMap = EmptyMap

\* the step is a drag move of a root whose drag is active
ActiveDragMoveStep == DragMoveStep /\ Has(dragSnapshot, event'.id)

\* C20: overlapping drags are last writer wins per node: a move of an active
\* root writes snapshot position + delta to every node of its snapshot and
\* leaves every other node where it was, so that after a move of one root
\* and then of another a node of both snapshots holds what the later move
\* wrote and a node of the earlier snapshot alone still holds what the
\* earlier move wrote.
C20_LastWriterWins ==
  [][ActiveDragMoveStep =>
       /\ Len(nodes') = Len(nodes)
       /\ \A i \in 1..Len(nodes) :
            IF Has(dragSnapshot[event'.id], nodes[i].id)
              THEN nodes'[i].position =
                     RigidPosition(dragSnapshot[event'.id], event'.id, event'.position,
                                   nodes[i].id)
              ELSE /\ nodes'[i].position = nodes[i].position
                   /\ (AfterActiveDragMove /\ Has(dragSnapshot[event.id], nodes[i].id)) =>
                        nodes'[i].position =
                          RigidPosition(dragSnapshot[event.id], event.id, event.position,
                                        nodes[i].id)]_vars

\* drags of a root and of one of its descendants are both active; the root
\* was moved first and the descendant last: a node of the root's snapshot
\* alone is still displaced, a node below the descendant has followed it
C20_Witness ==
  /\ AfterActiveDragMove
  /\ moves = 2
  /\ \E r1 \in DOMAIN dragSnapshot \ {event.id} :
       /\ Has(dragSnapshot[r1], event.id)
       /\ \E i \in 1..Len(nodes) :
            /\ nodes[i].id # r1
            /\ Has(dragSnapshot[r1], nodes[i].id)
            /\ ~Has(dragSnapshot[event.id], nodes[i].id)
            /\ nodes[i].position # dragSnapshot[r1][nodes[i].id]
       /\ \E i \in 1..Len(nodes) :
            /\ nodes[i].id # event.id
            /\ Has(dragSnapshot[event.id], nodes[i].id)
            /\ nodes[i].position # dragSnapshot[event.id][nodes[i].id]
            /\ nodes[i].position # dragSnapshot[r1][nodes[i].id]

\* no id occurs twice in seq
NoRepeat(seq) == \A i, j \in 1..Len(seq) : seq[i] = seq[j] => i = j

\* the loop of the running call has ended with every node reachable from
\* parentId through the relation index, parentId excepted, collected once
WalkDone ==
  /\ walk.active
  /\ walk.stack = <<>>
  /\ NoRepeat(walk.collected)
  /\ Range(walk.collected) = ReachableFrom(parentMap, {walk.parentId}) \ {walk.parentId}
  /\ walk.collected = collectDescendants(parentMap, walk.parentId)

\* C21: for every node id of a built graph collectDescendants(id) terminates
\* and returns every transitive descendant of id exactly once, never id
\* itself and no id twice.
C21_WalkTerminates == walk.active ~> WalkDone

\* the walk from the root of a graph with grandchildren has collected them
C21_Witness ==
  /\ WalkDone
  /\ walk.parentId = "1"
  /\ Len(walk.collected) = MaxNodes - 1
  /\ \E c \in DOMAIN parentMap : c # "1"

====
